---- MODULE Spec2Model ----
(***************************************************************************)
(* State-machine model of the village backend: the problem store, the      *)
(* HTTP handlers of routes/problems.js and routes/wards.js (one action per *)
(* await point, so that concurrent requests interleave where the code      *)
(* suspends), and the socket.io rooms of index.js.                         *)
(*                                                                         *)
(* Strings whose content never matters are modelled by their trimmed       *)
(* length; timestamps by a non-decreasing integer clock; "absent" request  *)
(* fields by the sentinels below.                                          *)
(***************************************************************************)
EXTENDS Integers, Sequences, FiniteSets, TLC

\* ------------------------------------------------------------- bounds
MaxWard == 2
MaxProblems == 1
MaxClock == 2
MaxSessions == 2
MaxWardDocs == 2
MaxBoots == 2
MaxList == 3
MaxPage == 3
MaxLimit == 2

\* ------------------------------------------------- program constants
TitleMin == 5
TitleMax == 200
DescMin == 10
DescMax == 1000
LocMin == 5
NotesMax == 500
DefaultPage == 1
DefaultLimit == 10
WardNumberMin == 1
WardNumberMax == 50
WardNameMin == 2
SeedWardCount == 10
RecentLimit == 5

\* ------------------------------------------------------------ domains
Wards == 1..MaxWard
ProblemIds == 1..MaxProblems
Sessions == 1..MaxSessions
Reqs == {"r1", "r2"}

Absent == 0 - 1          \* an undefined request field
NaN == 0 - 2             \* the result of parseInt on a string with no leading digit
NoUser == 0              \* a null user reference
NoDate == 0              \* a null Date

Categories == {"Water Supply", "Electricity", "Roads & Transportation",
               "Waste Management", "Healthcare", "Education", "Security",
               "Environment", "Infrastructure", "Other"}
Priorities == {"Low", "Medium", "High", "Critical"}
Statuses == {"Open", "In Progress", "Resolved", "Closed"}

\* The actors the authentication layer can attach to a request: one resident
\* per ward, the seeded administrator (ward 1), and an unauthenticated caller.
AdminId == MaxWard + 1
AdminUser == [id |-> AdminId, role |-> "admin", wardNumber |-> 1]
Residents == {[id |-> w, role |-> "resident", wardNumber |-> w] : w \in Wards}
Anonymous == [id |-> NoUser, role |-> "none", wardNumber |-> Absent]
Actors == Residents \cup {AdminUser, Anonymous}

\* ------------------------------------------------------------ records
NoDoc == [id |-> 0, title |-> 0, category |-> "", priority |-> "",
          status |-> "", reportedBy |-> NoUser, wardNumber |-> 0,
          assignedTo |-> NoUser, adminNotes |-> Absent,
          resolvedAt |-> NoDate, createdAt |-> NoDate]

NoBody == [title |-> Absent, description |-> Absent, category |-> "",
           location |-> Absent, priority |-> "", wardNumber |-> Absent,
           reportedBy |-> Absent, status |-> "", adminNotes |-> Absent,
           assignedTo |-> NoUser]

NoQuery == [status |-> "", category |-> "", wardNumber |-> <<>>,
            page |-> Absent, limit |-> Absent]

NoFilter == [wardNumber |-> Absent, status |-> "", category |-> ""]

\* A Ward document; name is the length of the trimmed name.
NoWard == [id |-> 0, wardNumber |-> 0, name |-> 0, population |-> 0,
           isActive |-> FALSE]

\* The body of a ward request; isActive is "" when the body has none.
NoWardBody == [wardNumber |-> Absent, name |-> Absent, population |-> Absent,
               isActive |-> ""]

NoRes == [code |-> 0, problem |-> NoDoc, problems |-> <<>>,
          total |-> Absent, totalPages |-> Absent, currentPage |-> Absent,
          ward |-> NoWard, wards |-> <<>>, stats |-> [s \in Statuses |-> 0]]

IdleReq == [kind |-> "none", pc |-> "idle", actor |-> Anonymous, pid |-> 0,
            body |-> NoBody, query |-> NoQuery, filter |-> NoFilter,
            doc |-> NoDoc, orig |-> NoDoc, res |-> NoRes,
            emitted |-> <<>>, seen |-> {}, failedAt |-> "",
            wardNumber |-> Absent, wbody |-> NoWardBody, ward |-> NoWard]

\* initializeDefaultData before it runs. runs, hadWards and hadAdmin are
\* history: the number of runs begun, and what the store held when the latest
\* began.
BootOff == [pc |-> "off", wardCount |-> Absent, adminExists |-> FALSE,
            runs |-> 0, hadWards |-> FALSE, hadAdmin |-> FALSE, failedAt |-> ""]

VARIABLES
  problems,    \* the Problem collection: id -> document, NoDoc when not saved
  nextId,      \* the next fresh document id (new Problem() assigns _id)
  now,         \* the clock read by new Date() and by the store's timestamps
  reqs,        \* the handler invocations, per slot: position, locals, response;
               \* emitted (the events it published), seen (the statuses it has
               \* read from or written to the store) and failedAt are history
  connected,   \* the sockets currently connected
  rooms,       \* socket -> the set of wards whose room it has joined
  lastEmit,    \* the emission of the step just taken, NoEmit when it made
               \* none: the event and the number of copies sent to each socket
  rejoined,    \* history: socket -> the wards it sent join-ward for while it
               \* was already in their room, during its latest connection
  wards,       \* the Ward collection: a set of documents
  nextWardId,  \* the next fresh Ward document id
  users,       \* the User collection: a set of documents
  boot         \* the run of initializeDefaultData: position, locals, history

vars == <<problems, nextId, now, reqs, connected, rooms, lastEmit,
          rejoined, wards, nextWardId, users, boot>>

storeVars == <<problems, nextId>>
busVars == <<connected, rooms, rejoined>>
wardVars == <<wards, nextWardId, users, boot>>

NoEvent == [type |-> "", id |-> 0, title |-> 0, status |-> "", wardNumber |-> 0,
            topic |-> 0, origin |-> ""]

NoEmit == [event |-> NoEvent, copies |-> [s \in Sessions |-> 0], sender |-> 0]

\* A step that emits nothing.
Quiet == lastEmit' = NoEmit

Init ==
  /\ problems = [i \in ProblemIds |-> NoDoc]
  /\ nextId = 1
  /\ now = 1
  /\ reqs = [r \in Reqs |-> IdleReq]
  /\ connected = {}
  /\ rooms = [s \in Sessions |-> {}]
  /\ lastEmit = NoEmit
  /\ rejoined = [s \in Sessions |-> {}]
  /\ wards = {}
  /\ nextWardId = 1
  /\ users = Residents \cup {AdminUser}
  /\ boot = BootOff

\* ------------------------------------------------- access control policy
\* auth: attaches the authenticated user to the request, or answers 401.
Authenticated(a) == a.role # "none"

\* adminAuth: lets only an authenticated user of role admin through.
IsAdmin(a) == a.role = "admin"

\* --------------------------------------------------------- notification bus
\* io.emit in place of io.to(room).emit: every connected socket.
RecipientsAll(w) == connected

\* io.to(`ward-${w}`): the sockets that are in the room at the time of the call.
Recipients(w) == {s \in connected : w \in rooms[s]}

\* A room that keeps one entry per join-ward: a socket that joined again gets
\* a second copy.
EmitPerJoin(w, ev) ==
  [event |-> ev,
   copies |-> [s \in Sessions |-> IF s \notin Recipients(w) THEN 0
                                  ELSE IF w \in rejoined[s] THEN 2 ELSE 1],
   sender |-> 0]

\* .emit(type, payload): one copy of the payload to every recipient.
Emit(w, ev) ==
  [event |-> ev, copies |-> [s \in Sessions |-> IF s \in Recipients(w) THEN 1 ELSE 0],
   sender |-> 0]

NewProblemTopic(doc) == doc.wardNumber

NewProblemEvent(doc) ==
  [type |-> "new-problem", id |-> doc.id, title |-> doc.title, status |-> "",
   wardNumber |-> doc.wardNumber, topic |-> NewProblemTopic(doc),
   origin |-> "handler"]

ProblemUpdatedEvent(doc) ==
  [type |-> "problem-updated", id |-> doc.id, title |-> doc.title,
   status |-> doc.status, wardNumber |-> doc.wardNumber,
   topic |-> doc.wardNumber, origin |-> "handler"]

\* --------------------------------------------------------------- the store
\* A JavaScript string is truthy iff it is present and non-empty.
Truthy(len) == len > 0

Fields == {"title", "category", "priority", "status", "reportedBy", "wardNumber",
           "assignedTo", "adminNotes", "resolvedAt", "createdAt"}

\* The paths of a loaded document that were set to a different value.
Modified(doc, orig) == {f \in Fields : doc[f] # orig[f]}

\* A save whose write never reaches the collection.
SaveExistingLost(stored, doc, orig) == stored

\* document.save() of a loaded document: $set of the modified paths only.
SaveExisting(stored, doc, orig) ==
  [f \in DOMAIN stored |-> IF f \in Modified(doc, orig) THEN doc[f] ELSE stored[f]]

\* updateStatus with an else branch that clears resolvedAt on reopening.
updateStatusClearing(doc, newStatus, adminNotes, t) ==
  LET d1 == [doc EXCEPT !.status = newStatus]
      d2 == IF Truthy(adminNotes) THEN [d1 EXCEPT !.adminNotes = adminNotes] ELSE d1
  IN  IF newStatus \in {"Resolved", "Closed"} THEN [d2 EXCEPT !.resolvedAt = t]
      ELSE [d2 EXCEPT !.resolvedAt = NoDate]

\* problemSchema.methods.updateStatus, up to its save().
updateStatus(doc, newStatus, adminNotes, t) ==
  LET d1 == [doc EXCEPT !.status = newStatus]
      d2 == IF Truthy(adminNotes) THEN [d1 EXCEPT !.adminNotes = adminNotes] ELSE d1
  IN  IF newStatus \in {"Resolved", "Closed"} THEN [d2 EXCEPT !.resolvedAt = t] ELSE d2

\* Problem.find(filter) / countDocuments(filter): the saved documents that match.
Matching(f) ==
  {d \in {problems[i] : i \in DOMAIN problems} :
     /\ d # NoDoc
     /\ f.wardNumber = Absent \/ d.wardNumber = f.wardNumber
     /\ f.status = "" \/ d.status = f.status
     /\ f.category = "" \/ d.category = f.category}

\* .sort({ createdAt: -1 }): newest first; documents of equal createdAt in any order.
SortedOrders(S) ==
  {o \in [1..Cardinality(S) -> S] :
     /\ \A i, j \in DOMAIN o : i # j => o[i] # o[j]
     /\ \A i, j \in DOMAIN o : i < j => o[i].createdAt >= o[j].createdAt}

\* .limit(limit) without the .skip(skip).
PageOfFirst(o, skip, limit) ==
  [i \in 1..(IF limit < Len(o) THEN limit ELSE Len(o)) |-> o[i]]

\* .limit(limit).skip(skip) of an ordered result.
PageOf(o, skip, limit) ==
  LET last == IF skip + limit < Len(o) THEN skip + limit ELSE Len(o)
  IN  [i \in 1..(IF last > skip THEN last - skip ELSE 0) |-> o[skip + i]]

\* Math.ceil(total / limit), limit >= 1.
Ceil(total, limit) == (total + limit - 1) \div limit

\* parseInt(string): the number the leading decimal digits spell, NaN if none.
\* A route or query parameter is the sequence of its characters.
DigitVal == [c \in {"0", "1", "2", "3", "4", "5", "6", "7", "8", "9"} |->
              CASE c = "0" -> 0 [] c = "1" -> 1 [] c = "2" -> 2 [] c = "3" -> 3
                [] c = "4" -> 4 [] c = "5" -> 5 [] c = "6" -> 6 [] c = "7" -> 7
                [] c = "8" -> 8 [] c = "9" -> 9]

RECURSIVE LeadingDigits(_, _)
LeadingDigits(str, acc) ==
  IF str = <<>> \/ Head(str) \notin DOMAIN DigitVal THEN acc
  ELSE LeadingDigits(Tail(str), acc * 10 + DigitVal[Head(str)])

parseInt(str) ==
  IF str = <<>> \/ Head(str) \notin DOMAIN DigitVal THEN NaN
  ELSE LeadingDigits(str, 0)

\* ------------------------------------------------------------ shared steps
Free(r) == reqs[r].pc \in {"idle", "done"}


\* A handler's early return or catch block: the response, nothing else.
Fail(q, code, at) ==
  [q EXCEPT !.pc = "done", !.res = [NoRes EXCEPT !.code = code], !.failedAt = at,
            !.doc = NoDoc, !.orig = NoDoc, !.body = NoBody, !.query = NoQuery,
            !.wbody = NoWardBody, !.ward = NoWard]

\* ------------------------------------------------------- POST /api/problems
PostErrors(b) ==
  {f \in {"title"} : ~(b.title >= TitleMin /\ b.title <= TitleMax)}
  \cup {f \in {"description"} : ~(b.description >= DescMin /\ b.description <= DescMax)}
  \cup {f \in {"category"} : b.category \notin Categories}
  \cup {f \in {"location"} : ~(b.location >= LocMin)}
  \cup {f \in {"priority"} : b.priority # "" /\ b.priority \notin Priorities}

\* new Problem({...}) that prefers the ward and reporter the body names.
NewProblemFromBody(a, b, id) ==
  [NoDoc EXCEPT !.id = id, !.title = b.title, !.category = b.category,
                !.priority = IF b.priority = "" THEN "Medium" ELSE b.priority,
                !.status = "Open",
                !.reportedBy = IF b.reportedBy # Absent THEN b.reportedBy ELSE a.id,
                !.wardNumber = IF b.wardNumber # Absent THEN b.wardNumber
                               ELSE a.wardNumber]

NewProblem(a, b, id) ==
  [NoDoc EXCEPT !.id = id, !.title = b.title, !.category = b.category,
                !.priority = IF b.priority = "" THEN "Medium" ELSE b.priority,
                !.status = "Open",
                !.reportedBy = a.id, !.wardNumber = a.wardNumber]

PostStart(r, a, b) ==
  /\ Free(r)
  /\ nextId <= MaxProblems
  /\ LET q == [IdleReq EXCEPT !.kind = "post", !.actor = a, !.body = b] IN
       IF ~Authenticated(a) THEN
         /\ reqs' = [reqs EXCEPT ![r] = Fail(q, 401, "auth")]
         /\ UNCHANGED nextId
       ELSE IF PostErrors(b) # {} THEN
         /\ reqs' = [reqs EXCEPT ![r] = Fail(q, 400, "validation")]
         /\ UNCHANGED nextId
       ELSE
         /\ reqs' = [reqs EXCEPT ![r] =
                       [q EXCEPT !.pc = "post_save", !.doc = NewProblem(a, b, nextId)]]
         /\ nextId' = nextId + 1
  /\ Quiet
  /\ UNCHANGED <<problems, now, busVars, wardVars>>

\* The handler with the emit placed before the await of save().
PostSaveEmitFirst(r, ok) ==
  /\ reqs[r].pc = "post_save"
  /\ LET q == [reqs[r] EXCEPT !.emitted = Append(@, NewProblemEvent(reqs[r].doc))]
         d == [q.doc EXCEPT !.createdAt = now] IN
       /\ lastEmit' = Emit(q.doc.wardNumber, NewProblemEvent(q.doc))
       /\ IF ok THEN
            /\ problems' = [problems EXCEPT ![d.id] = d]
            /\ reqs' = [reqs EXCEPT ![r] = [q EXCEPT !.pc = "post_emit", !.doc = d,
                                                     !.orig = d, !.seen = {d.status}]]
          ELSE
            /\ reqs' = [reqs EXCEPT ![r] = Fail(q, 500, "save")]
            /\ UNCHANGED problems
  /\ UNCHANGED <<nextId, now, busVars, wardVars>>

PostSave(r, ok) ==
  /\ reqs[r].pc = "post_save"
  /\ LET q == reqs[r]
         d == [q.doc EXCEPT !.createdAt = now] IN
       IF ok THEN
         /\ problems' = [problems EXCEPT ![d.id] = d]
         /\ reqs' = [reqs EXCEPT ![r] = [q EXCEPT !.pc = "post_emit", !.doc = d, !.orig = d,
                                                  !.seen = {d.status}]]
       ELSE
         /\ reqs' = [reqs EXCEPT ![r] = Fail(q, 500, "save")]
         /\ UNCHANGED problems
  /\ Quiet
  /\ UNCHANGED <<nextId, now, busVars, wardVars>>

\* await populate; then emit and res.status(201) run without suspending.
PostEmit(r, populated, emitted) ==
  /\ reqs[r].pc = "post_emit"
  /\ LET q == reqs[r]
         ev == NewProblemEvent(q.doc) IN
       IF ~populated THEN
         /\ reqs' = [reqs EXCEPT ![r] = Fail(q, 500, "populate")]
         /\ Quiet
       ELSE IF ~emitted THEN
         /\ reqs' = [reqs EXCEPT ![r] = Fail(q, 500, "emit")]
         /\ Quiet
       ELSE
         /\ lastEmit' = Emit(ev.topic, ev)
         /\ reqs' = [reqs EXCEPT ![r] =
                       [q EXCEPT !.pc = "done", !.emitted = Append(q.emitted, ev),
                                 !.res = [NoRes EXCEPT !.code = 201, !.problem = q.doc]]]
  /\ UNCHANGED <<storeVars, now, connected, rooms, rejoined, wardVars>>

\* ------------------------------------------- PUT /api/problems/:id/status
PutErrors(b) ==
  {f \in {"status"} : b.status \notin Statuses}
  \cup {f \in {"adminNotes"} : b.adminNotes # Absent /\ ~(b.adminNotes <= NotesMax)}

\* The route mounted with auth in place of adminAuth.
PutStatusAllowsAnyUser(a) == Authenticated(a)

\* The middleware the route is mounted with.
PutStatusAllows(a) == IsAdmin(a)

PutStart(r, a, pid, b) ==
  /\ Free(r)
  /\ LET q == [IdleReq EXCEPT !.kind = "put", !.actor = a, !.pid = pid, !.body = b] IN
       reqs' = [reqs EXCEPT ![r] =
                  IF ~Authenticated(a) THEN Fail(q, 401, "auth")
                  ELSE IF ~PutStatusAllows(a) THEN Fail(q, 403, "auth")
                  ELSE IF PutErrors(b) # {} THEN Fail(q, 400, "validation")
                  ELSE [q EXCEPT !.pc = "put_find"]]
  /\ Quiet
  /\ UNCHANGED <<storeVars, now, busVars, wardVars>>

\* A handler that copies the whole request body onto the document it found.
PutFindAssignsBody(r, ok) ==
  /\ reqs[r].pc = "put_find"
  /\ LET q == reqs[r]
         found == problems[q.pid]
         d == updateStatus(found, q.body.status, q.body.adminNotes, now) IN
       reqs' = [reqs EXCEPT ![r] =
                  IF ~ok THEN Fail(q, 500, "find")
                  ELSE IF found = NoDoc THEN Fail(q, 404, "lookup")
                  ELSE [q EXCEPT !.pc = "put_save1", !.orig = found,
                                 !.seen = {found.status},
                                 !.doc = [d EXCEPT
                                   !.wardNumber = IF q.body.wardNumber # Absent
                                                  THEN q.body.wardNumber ELSE @,
                                   !.reportedBy = IF q.body.reportedBy # Absent
                                                  THEN q.body.reportedBy ELSE @]]]
  /\ Quiet
  /\ UNCHANGED <<storeVars, now, busVars, wardVars>>

\* await Problem.findById; then updateStatus runs up to its save().
PutFind(r, ok) ==
  /\ reqs[r].pc = "put_find"
  /\ LET q == reqs[r]
         found == problems[q.pid] IN
       reqs' = [reqs EXCEPT ![r] =
                  IF ~ok THEN Fail(q, 500, "find")
                  ELSE IF found = NoDoc THEN Fail(q, 404, "lookup")
                  ELSE [q EXCEPT !.pc = "put_save1", !.orig = found,
                                 !.seen = {found.status},
                                 !.doc = updateStatus(found, q.body.status,
                                                      q.body.adminNotes, now)]]
  /\ Quiet
  /\ UNCHANGED <<storeVars, now, busVars, wardVars>>

\* What one PUT /problems/:id/status does to the document it loaded, from
\* updateStatus to the assignment, when nothing else runs in between.
PutResult(doc, b, t) ==
  LET d == updateStatus(doc, b.status, b.adminNotes, t)
  IN  IF b.assignedTo # NoUser THEN [d EXCEPT !.assignedTo = b.assignedTo] ELSE d

\* The save() inside updateStatus resolves; then the assignment, if any.
PutSave1(r, ok) ==
  /\ reqs[r].pc = "put_save1"
  /\ LET q == reqs[r]
         written == SaveExisting(problems[q.pid], q.doc, q.orig) IN
       IF ok THEN
         /\ problems' = [problems EXCEPT ![q.pid] = written]
         /\ reqs' = [reqs EXCEPT ![r] =
                       IF q.body.assignedTo # NoUser
                       THEN [q EXCEPT !.pc = "put_save2", !.orig = q.doc,
                                      !.seen = @ \cup {written.status},
                                      !.doc = [q.doc EXCEPT !.assignedTo = q.body.assignedTo]]
                       ELSE [q EXCEPT !.pc = "put_emit", !.orig = q.doc,
                                      !.seen = @ \cup {written.status}]]
       ELSE
         /\ reqs' = [reqs EXCEPT ![r] = Fail(q, 500, "save")]
         /\ UNCHANGED problems
  /\ Quiet
  /\ UNCHANGED <<nextId, now, busVars, wardVars>>

\* The save() after problem.assignedTo = assignedTo resolves.
PutSave2(r, ok) ==
  /\ reqs[r].pc = "put_save2"
  /\ LET q == reqs[r] IN
       IF ok THEN
         /\ problems' = [problems EXCEPT ![q.pid] = SaveExisting(@, q.doc, q.orig)]
         /\ reqs' = [reqs EXCEPT ![r] = [q EXCEPT !.pc = "put_emit", !.orig = q.doc]]
       ELSE
         /\ reqs' = [reqs EXCEPT ![r] = Fail(q, 500, "save2")]
         /\ UNCHANGED problems
  /\ Quiet
  /\ UNCHANGED <<nextId, now, busVars, wardVars>>

\* await the two populate calls; then emit and res.json run without suspending.
PutEmit(r, populated, emitted) ==
  /\ reqs[r].pc = "put_emit"
  /\ LET q == reqs[r]
         ev == ProblemUpdatedEvent(q.doc) IN
       IF ~populated THEN
         /\ reqs' = [reqs EXCEPT ![r] = Fail(q, 500, "populate")]
         /\ Quiet
       ELSE IF ~emitted THEN
         /\ reqs' = [reqs EXCEPT ![r] = Fail(q, 500, "emit")]
         /\ Quiet
       ELSE
         /\ lastEmit' = Emit(ev.topic, ev)
         /\ reqs' = [reqs EXCEPT ![r] =
                       [q EXCEPT !.pc = "done", !.emitted = Append(q.emitted, ev),
                                 !.res = [NoRes EXCEPT !.code = 200, !.problem = q.doc]]]
  /\ UNCHANGED <<storeVars, now, connected, rooms, rejoined, wardVars>>

\* ------------------------------------------------------- GET /api/problems
\* A query object that lets the query string's ward filter win.
ListFilterTrustsQuery(a, qry) ==
  [wardNumber |-> IF qry.wardNumber # <<>> THEN parseInt(qry.wardNumber)
                  ELSE IF a.role # "admin" THEN a.wardNumber
                  ELSE Absent,
   status |-> qry.status,
   category |-> qry.category]

\* The query object the handler builds from the actor and the query string.
ListFilter(a, qry) ==
  [wardNumber |-> IF a.role # "admin" THEN a.wardNumber
                  ELSE IF qry.wardNumber # <<>> THEN parseInt(qry.wardNumber)
                  ELSE Absent,
   status |-> qry.status,
   category |-> qry.category]

\* const { page = 1, limit = 10 } = req.query
PageParam(qry) == IF qry.page = Absent THEN DefaultPage ELSE qry.page
LimitParam(qry) == IF qry.limit = Absent THEN DefaultLimit ELSE qry.limit

ListStart(r, a, qry) ==
  /\ Free(r)
  /\ LET q == [IdleReq EXCEPT !.kind = "list", !.actor = a, !.query = qry] IN
       reqs' = [reqs EXCEPT ![r] =
                  IF ~Authenticated(a) THEN Fail(q, 401, "auth")
                  ELSE [q EXCEPT !.pc = "list_find", !.filter = ListFilter(a, qry)]]
  /\ Quiet
  /\ UNCHANGED <<storeVars, now, busVars, wardVars>>

\* await Problem.find(query).sort().limit().skip(), of either listing route.
\* A NaN ward number cannot be cast and a negative skip is refused: both throw.
ListFind(r, ok, o) ==
  /\ reqs[r].pc = "list_find"
  /\ o \in SortedOrders(Matching(reqs[r].filter))
  /\ LET q == reqs[r]
         skip == (PageParam(q.query) - 1) * LimitParam(q.query) IN
       reqs' = [reqs EXCEPT ![r] =
                  IF ~ok \/ q.filter.wardNumber = NaN \/ skip < 0
                  THEN Fail(q, 500, "find")
                  ELSE [q EXCEPT !.pc = "list_count",
                                 !.res.problems = PageOf(o, skip, LimitParam(q.query))]]
  /\ Quiet
  /\ UNCHANGED <<storeVars, now, busVars, wardVars>>

\* await Problem.countDocuments(query); then res.json.
ListCount(r, ok) ==
  /\ reqs[r].pc = "list_count"
  /\ LET q == reqs[r]
         total == Cardinality(Matching(q.filter)) IN
       reqs' = [reqs EXCEPT ![r] =
                  IF ~ok THEN Fail(q, 500, "count")
                  ELSE [q EXCEPT !.pc = "done",
                                 !.res = [q.res EXCEPT !.code = 200, !.total = total,
                                            !.totalPages = Ceil(total, LimitParam(q.query)),
                                            !.currentPage = PageParam(q.query)]]]
  /\ Quiet
  /\ UNCHANGED <<storeVars, now, busVars, wardVars>>

\* --------------------------------------------------- GET /api/problems/:id
\* The read without its access check.
canViewAnyone(a, wardNumber) == TRUE

\* The guard of the single-resource read: admin, or the problem is of the
\* actor's ward.
canView(a, wardNumber) == ~(a.role # "admin" /\ wardNumber # a.wardNumber)

GetStart(r, a, pid) ==
  /\ Free(r)
  /\ LET q == [IdleReq EXCEPT !.kind = "get", !.actor = a, !.pid = pid] IN
       reqs' = [reqs EXCEPT ![r] =
                  IF ~Authenticated(a) THEN Fail(q, 401, "auth")
                  ELSE [q EXCEPT !.pc = "get_find"]]
  /\ Quiet
  /\ UNCHANGED <<storeVars, now, busVars, wardVars>>

GetFind(r, ok) ==
  /\ reqs[r].pc = "get_find"
  /\ LET q == reqs[r]
         found == problems[q.pid] IN
       reqs' = [reqs EXCEPT ![r] =
                  IF ~ok THEN Fail(q, 500, "find")
                  ELSE IF found = NoDoc THEN Fail(q, 404, "lookup")
                  ELSE IF ~canView(q.actor, found.wardNumber) THEN Fail(q, 403, "access")
                  ELSE [q EXCEPT !.pc = "done",
                                 !.res = [NoRes EXCEPT !.code = 200, !.problem = found]]]
  /\ Quiet
  /\ UNCHANGED <<storeVars, now, busVars, wardVars>>

\* ------------------------------------------ GET /api/wards/:wardNumber/problems
\* The guard comparing the unparsed parameter, a string, with the actor's
\* number: never equal.
WardAccessDeniedNoParse(a, wardNumber) == a.role # "admin"

\* The guard of the ward listing, on the parsed route parameter.
WardAccessDenied(a, wardNumber) == a.role # "admin" /\ wardNumber # a.wardNumber

WardListStart(r, a, param, qry) ==
  /\ Free(r)
  /\ LET q == [IdleReq EXCEPT !.kind = "wardlist", !.actor = a, !.query = qry,
                              !.filter = [wardNumber |-> parseInt(param),
                                          status |-> qry.status,
                                          category |-> qry.category]] IN
       reqs' = [reqs EXCEPT ![r] =
                  IF ~Authenticated(a) THEN Fail(q, 401, "auth")
                  ELSE IF WardAccessDenied(a, parseInt(param)) THEN Fail(q, 403, "access")
                  ELSE [q EXCEPT !.pc = "list_find"]]
  /\ Quiet
  /\ UNCHANGED <<storeVars, now, busVars, wardVars>>

\* ------------------------------------------------------------------ clock
Tick ==
  /\ now < MaxClock
  /\ now' = now + 1
  /\ Quiet
  /\ UNCHANGED <<storeVars, reqs, busVars, wardVars>>

\* ----------------------------------------------------------- request inputs
\* Bodies of POST /problems: valid ones that differ in the wardNumber and
\* reportedBy they carry, and one invalid in each validated field.
ValidPost ==
  [NoBody EXCEPT !.title = TitleMin, !.description = DescMin, !.category = "Other",
                 !.location = LocMin]

PostBodies ==
  {[ValidPost EXCEPT !.wardNumber = w, !.reportedBy = AdminId] : w \in Wards}
  \cup {ValidPost,
        [ValidPost EXCEPT !.status = "Resolved", !.adminNotes = 3, !.assignedTo = AdminId],
        [ValidPost EXCEPT !.title = TitleMin - 1],
        [ValidPost EXCEPT !.description = DescMax + 1],
        [ValidPost EXCEPT !.category = "Gardening"],
        [ValidPost EXCEPT !.location = Absent],
        [ValidPost EXCEPT !.priority = "Urgent"]}

\* Bodies of PUT /problems/:id/status: every status alone, one update that
\* also carries notes and an assignee, and one invalid in each validated field.
PutBodies ==
  {[NoBody EXCEPT !.status = s] : s \in Statuses}
  \cup {[NoBody EXCEPT !.status = "In Progress", !.adminNotes = 3, !.assignedTo = AdminId],
        [NoBody EXCEPT !.status = "Done"],
        [NoBody EXCEPT !.status = "Open", !.adminNotes = NotesMax + 1]}

\* Route parameters :wardNumber and ?wardNumber=, as character sequences.
DigitChar == <<"1", "2", "3", "4", "5", "6", "7", "8", "9">>
WardParams == {<<DigitChar[w]>> : w \in Wards} \cup {<<"x">>, <<"1", "x">>}

\* Query strings of GET /problems: every ward filter with and without a status
\* filter, a category filter, a second page of size one, and page 0.
ListQueries ==
  {[NoQuery EXCEPT !.wardNumber = w, !.status = s]
     : w \in {<<>>} \cup WardParams, s \in {"", "Open"}}
  \cup {[NoQuery EXCEPT !.category = "Security"],
        [NoQuery EXCEPT !.category = "Other", !.page = 2, !.limit = 1],
        [NoQuery EXCEPT !.page = 0]}

\* Query strings of GET /wards/:wardNumber/problems.
WardQueries ==
  {NoQuery,
   [NoQuery EXCEPT !.status = "Open"],
   [NoQuery EXCEPT !.category = "Security"],
   [NoQuery EXCEPT !.page = 2, !.limit = 1],
   [NoQuery EXCEPT !.page = 0]}

\* The one update the read and bus scenarios need: resolve, nothing else.
ResolveBody == [NoBody EXCEPT !.status = "Resolved"]

\* An update that confirms the status a reported problem already has.
ConfirmBody == [NoBody EXCEPT !.status = "Open"]

SignedIn == Residents \cup {AdminUser}

\* ------------------------------------------------------------ /api/wards
\* The wardNumber index of wardSchema (unique: true) that never rejects.
DuplicateKeyNoIndex(S, doc) == FALSE

\* The wardNumber index of wardSchema (unique: true): a write of doc is
\* rejected when another document of S has its wardNumber.
DuplicateKey(S, doc) == \E w \in S : w.id # doc.id /\ w.wardNumber = doc.wardNumber

\* Ward.findOne({ wardNumber, isActive: true }) in place of findOne({ wardNumber }).
WardExistsActive(n) == \E w \in wards : w.wardNumber = n /\ w.isActive

\* Ward.findOne({ wardNumber: n }) finds a document.
WardExists(n) == \E w \in wards : w.wardNumber = n

\* Ward.findOne({ wardNumber: n, isActive: true })
ActiveWards(n) == {w \in wards : w.wardNumber = n /\ w.isActive}

\* POST /: the express-validator chain.
WardPostErrors(b) ==
  {f \in {"wardNumber"} : ~(b.wardNumber >= WardNumberMin /\ b.wardNumber <= WardNumberMax)}
  \cup {f \in {"name"} : ~(b.name >= WardNameMin)}
  \cup {f \in {"population"} : b.population # Absent /\ b.population < 0}

\* new Ward({ wardNumber, name, description, population, area, representative })
NewWard(b, id) ==
  [NoWard EXCEPT !.id = id, !.wardNumber = b.wardNumber, !.name = b.name,
                 !.population = IF b.population = Absent THEN 0 ELSE b.population,
                 !.isActive = TRUE]

WardPostStart(r, a, b) ==
  /\ Free(r)
  /\ nextWardId <= MaxWardDocs
  /\ LET q == [IdleReq EXCEPT !.kind = "wardpost", !.actor = a, !.wbody = b,
                              !.wardNumber = b.wardNumber] IN
       reqs' = [reqs EXCEPT ![r] =
         IF ~Authenticated(a) THEN Fail(q, 401, "auth")
         ELSE IF ~IsAdmin(a) THEN Fail(q, 403, "access")
         ELSE IF WardPostErrors(b) # {} THEN Fail(q, 400, "validation")
         ELSE [q EXCEPT !.pc = "wpost_find"]]
  /\ Quiet
  /\ UNCHANGED <<storeVars, now, busVars, wardVars>>

\* await Ward.findOne({ wardNumber }), then new Ward(...)
WardPostFind(r, ok) ==
  /\ reqs[r].pc = "wpost_find"
  /\ LET q == reqs[r] IN
       IF ~ok THEN
         /\ reqs' = [reqs EXCEPT ![r] = Fail(q, 500, "find")]
         /\ UNCHANGED nextWardId
       ELSE IF WardExists(q.wardNumber) THEN
         /\ reqs' = [reqs EXCEPT ![r] = Fail(q, 400, "conflict")]
         /\ UNCHANGED nextWardId
       ELSE
         /\ reqs' = [reqs EXCEPT ![r] =
              [q EXCEPT !.pc = "wpost_save", !.ward = NewWard(q.wbody, nextWardId)]]
         /\ nextWardId' = nextWardId + 1
  /\ Quiet
  /\ UNCHANGED <<storeVars, now, busVars, wards, users, boot>>

\* await ward.save(), res.status(201)
WardPostSave(r, ok) ==
  /\ reqs[r].pc = "wpost_save"
  /\ LET q == reqs[r] IN
       IF ok /\ ~DuplicateKey(wards, q.ward) THEN
         /\ wards' = wards \cup {q.ward}
         /\ reqs' = [reqs EXCEPT ![r] =
              [q EXCEPT !.pc = "done", !.res = [NoRes EXCEPT !.code = 201, !.ward = q.ward]]]
       ELSE
         /\ reqs' = [reqs EXCEPT ![r] = Fail(q, 500, "save")]
         /\ UNCHANGED wards
  /\ Quiet
  /\ UNCHANGED <<storeVars, now, busVars, nextWardId, users, boot>>

\* PUT /:wardNumber: the express-validator chain.
WardPutErrors(b) ==
  {f \in {"name"} : b.name # Absent /\ ~(b.name >= WardNameMin)}
  \cup {f \in {"population"} : b.population # Absent /\ b.population < 0}

\* { $set: updates }: every field of the body is written.
ApplySet(w, b) ==
  [w EXCEPT !.wardNumber = IF b.wardNumber = Absent THEN @ ELSE b.wardNumber,
            !.name = IF b.name = Absent THEN @ ELSE b.name,
            !.population = IF b.population = Absent THEN @ ELSE b.population,
            !.isActive = IF b.isActive = "" THEN @ ELSE b.isActive = "true"]

\* runValidators: the schema's min and max of wardNumber.
SchemaValid(w) == w.wardNumber >= WardNumberMin /\ w.wardNumber <= WardNumberMax

WardPutStart(r, a, param, b) ==
  /\ Free(r)
  /\ LET q == [IdleReq EXCEPT !.kind = "wardput", !.actor = a, !.wbody = b,
                              !.wardNumber = parseInt(param)] IN
       reqs' = [reqs EXCEPT ![r] =
         IF ~Authenticated(a) THEN Fail(q, 401, "auth")
         ELSE IF ~IsAdmin(a) THEN Fail(q, 403, "access")
         ELSE IF WardPutErrors(b) # {} THEN Fail(q, 400, "validation")
         ELSE [q EXCEPT !.pc = "wput_update"]]
  /\ Quiet
  /\ UNCHANGED <<storeVars, now, busVars, wardVars>>

\* await Ward.findOneAndUpdate({ wardNumber }, { $set: updates },
\*                             { new: true, runValidators: true })
WardPutUpdate(r, ok) ==
  /\ reqs[r].pc = "wput_update"
  /\ LET q == reqs[r]
         found == {w \in wards : w.wardNumber = q.wardNumber} IN
       IF ~ok \/ q.wardNumber = NaN THEN
         /\ reqs' = [reqs EXCEPT ![r] = Fail(q, 500, "find")]
         /\ UNCHANGED wards
       ELSE IF found = {} THEN
         /\ reqs' = [reqs EXCEPT ![r] = Fail(q, 404, "lookup")]
         /\ UNCHANGED wards
       ELSE
         \E t \in found :
           LET updated == ApplySet(t, q.wbody) IN
             IF ~SchemaValid(updated) \/ DuplicateKey(wards, updated) THEN
               /\ reqs' = [reqs EXCEPT ![r] = Fail(q, 500, "save")]
               /\ UNCHANGED wards
             ELSE
               /\ wards' = (wards \ {t}) \cup {updated}
               /\ reqs' = [reqs EXCEPT ![r] =
                    [q EXCEPT !.pc = "done", !.ward = t,
                              !.res = [NoRes EXCEPT !.code = 200, !.ward = updated]]]
  /\ Quiet
  /\ UNCHANGED <<storeVars, now, busVars, nextWardId, users, boot>>

\* Ward.find({ isActive: true })
ListedWards == {w \in wards : w.isActive}

\* .sort({ wardNumber: 1 }): documents of equal wardNumber in any order.
SortedWardOrders(S) ==
  {o \in [1..Cardinality(S) -> S] :
     /\ \A i, j \in DOMAIN o : i # j => o[i] # o[j]
     /\ \A i, j \in DOMAIN o : i < j => o[i].wardNumber <= o[j].wardNumber}

\* The two countDocuments of one ward, and the object built from them.
WardWithStats(w) ==
  [ward |-> w,
   activeProblems |-> Cardinality({d \in Matching([NoFilter EXCEPT !.wardNumber = w.wardNumber]) :
                                     d.status \in {"Open", "In Progress"}}),
   totalProblems |-> Cardinality(Matching([NoFilter EXCEPT !.wardNumber = w.wardNumber]))]

\* GET /
WardIndexStart(r, a) ==
  /\ Free(r)
  /\ LET q == [IdleReq EXCEPT !.kind = "wardindex", !.actor = a] IN
       reqs' = [reqs EXCEPT ![r] =
         IF ~Authenticated(a) THEN Fail(q, 401, "auth")
         ELSE [q EXCEPT !.pc = "windex_find"]]
  /\ Quiet
  /\ UNCHANGED <<storeVars, now, busVars, wardVars>>

\* await Ward.find({ isActive: true }).sort({ wardNumber: 1 })
WardIndexFind(r, ok, o) ==
  /\ reqs[r].pc = "windex_find"
  /\ o \in SortedWardOrders(ListedWards)
  /\ LET q == reqs[r] IN
       reqs' = [reqs EXCEPT ![r] =
         IF ~ok THEN Fail(q, 500, "find")
         ELSE [q EXCEPT !.pc = "windex_count",
                        !.res.wards = [i \in DOMAIN o |->
                           [ward |-> o[i], activeProblems |-> 0, totalProblems |-> 0]]]]
  /\ Quiet
  /\ UNCHANGED <<storeVars, now, busVars, wardVars>>

\* await Promise.all(wards.map(... countDocuments ...)); res.json
WardIndexCount(r, ok) ==
  /\ reqs[r].pc = "windex_count"
  /\ LET q == reqs[r] IN
       reqs' = [reqs EXCEPT ![r] =
         IF ~ok THEN Fail(q, 500, "count")
         ELSE [q EXCEPT !.pc = "done",
                        !.res = [q.res EXCEPT !.code = 200,
                                   !.wards = [i \in DOMAIN q.res.wards |->
                                                WardWithStats(q.res.wards[i].ward)]]]]
  /\ Quiet
  /\ UNCHANGED <<storeVars, now, busVars, wardVars>>

\* GET /:wardNumber
WardGetStart(r, a, param) ==
  /\ Free(r)
  /\ LET q == [IdleReq EXCEPT !.kind = "wardget", !.actor = a,
                              !.wardNumber = parseInt(param)] IN
       reqs' = [reqs EXCEPT ![r] =
         IF ~Authenticated(a) THEN Fail(q, 401, "auth")
         ELSE [q EXCEPT !.pc = "wget_find"]]
  /\ Quiet
  /\ UNCHANGED <<storeVars, now, busVars, wardVars>>

\* await Ward.findOne({ wardNumber, isActive: true })
WardGetFind(r, ok) ==
  /\ reqs[r].pc = "wget_find"
  /\ LET q == reqs[r] IN
       IF ~ok \/ q.wardNumber = NaN THEN
         reqs' = [reqs EXCEPT ![r] = Fail(q, 500, "find")]
       ELSE IF ActiveWards(q.wardNumber) = {} THEN
         reqs' = [reqs EXCEPT ![r] = Fail(q, 404, "lookup")]
       ELSE
         \E w \in ActiveWards(q.wardNumber) :
           reqs' = [reqs EXCEPT ![r] = [q EXCEPT !.pc = "wget_recent", !.res.ward = w]]
  /\ Quiet
  /\ UNCHANGED <<storeVars, now, busVars, wardVars>>

\* await Problem.find({ wardNumber }).sort({ createdAt: -1 }).limit(5)
WardGetRecent(r, ok, o) ==
  /\ reqs[r].pc = "wget_recent"
  /\ o \in SortedOrders(Matching([NoFilter EXCEPT !.wardNumber = reqs[r].wardNumber]))
  /\ LET q == reqs[r] IN
       reqs' = [reqs EXCEPT ![r] =
         IF ~ok THEN Fail(q, 500, "recent")
         ELSE [q EXCEPT !.pc = "wget_stats", !.res.problems = PageOf(o, 0, RecentLimit)]]
  /\ Quiet
  /\ UNCHANGED <<storeVars, now, busVars, wardVars>>

\* await Problem.aggregate([{ $match: { wardNumber } }, { $group: ... }]); res.json
WardGetStats(r, ok) ==
  /\ reqs[r].pc = "wget_stats"
  /\ LET q == reqs[r] IN
       reqs' = [reqs EXCEPT ![r] =
         IF ~ok THEN Fail(q, 500, "stats")
         ELSE [q EXCEPT !.pc = "done",
                        !.res = [q.res EXCEPT !.code = 200,
                                   !.stats = [st \in Statuses |->
                                      Cardinality(Matching([NoFilter EXCEPT
                                         !.wardNumber = q.wardNumber, !.status = st]))]]]]
  /\ Quiet
  /\ UNCHANGED <<storeVars, now, busVars, wardVars>>

\* Bodies of POST /wards: valid ones for each ward number, one that also
\* carries isActive, and one failing each validator.
WardPostBodies ==
  {[NoWardBody EXCEPT !.wardNumber = n, !.name = WardNameMin] : n \in Wards}
  \cup {[NoWardBody EXCEPT !.wardNumber = 1, !.name = WardNameMin, !.isActive = "false"],
        [NoWardBody EXCEPT !.wardNumber = WardNumberMin - 1, !.name = WardNameMin],
        [NoWardBody EXCEPT !.wardNumber = WardNumberMax + 1, !.name = WardNameMin],
        [NoWardBody EXCEPT !.wardNumber = 1, !.name = WardNameMin - 1]}

\* Bodies of PUT /wards/:n: a rename, a soft delete, a reactivation, a
\* renumbering to each ward number and to one the schema rejects, and a
\* population the validator rejects.
WardPutBodies ==
  {[NoWardBody EXCEPT !.name = WardNameMin + 1],
   [NoWardBody EXCEPT !.isActive = "false"],
   [NoWardBody EXCEPT !.isActive = "true"],
   [NoWardBody EXCEPT !.wardNumber = WardNumberMax + 1],
   [NoWardBody EXCEPT !.population = 0 - 1]}
  \cup {[NoWardBody EXCEPT !.wardNumber = n] : n \in Wards}

\* -------------------------------------------------- initializeDefaultData
\* The frame of every bootstrap step: it touches the Ward and User collections
\* and nothing else.
BootFrame == Quiet /\ UNCHANGED <<storeVars, now, reqs, busVars>>

Admins == {u \in users : u.role = "admin"}

\* A fresh _id for new User(...).
FreshUserId ==
  IF users = {} THEN 1
  ELSE 1 + (CHOOSE i \in {u.id : u \in users} : \A u \in users : u.id <= i)

\* Math.floor(Math.random() * 1000) + 500 for each ward: the draws in which
\* the odd wards get one of the least and the greatest value and the even
\* wards get one.
SeedPopulations ==
  {[i \in 1..SeedWardCount |-> IF i % 2 = 1 THEN lo ELSE hi] : lo, hi \in {500, 1499}}

\* The length of `Ward ${i}`.
SeedNameLen(i) == IF i < 10 THEN 6 ELSE 7

\* The i-th element of defaultWards, given the _id and the random population.
SeedWard(i, id, pop) ==
  [NoWard EXCEPT !.id = id, !.wardNumber = i, !.name = SeedNameLen(i),
                 !.population = pop, !.isActive = TRUE]

\* mongoose connects (the process starts): initializeDefaultData() is called.
BootStart ==
  /\ boot.pc \in {"off", "done"}
  /\ boot.runs < MaxBoots
  /\ boot' = [BootOff EXCEPT !.pc = "count", !.runs = boot.runs + 1,
                             !.hadWards = (wards # {}), !.hadAdmin = (Admins # {})]
  /\ BootFrame
  /\ UNCHANGED <<wards, nextWardId, users>>

\* A bootstrap that seeds the wards whatever the count.
BootCountAlwaysSeeds(ok) ==
  /\ boot.pc = "count"
  /\ boot' = IF ~ok THEN [boot EXCEPT !.pc = "done", !.failedAt = "count"]
             ELSE [boot EXCEPT !.wardCount = Cardinality(wards), !.pc = "insert"]
  /\ BootFrame
  /\ UNCHANGED <<wards, nextWardId, users>>

\* const wardCount = await Ward.countDocuments(); if (wardCount === 0) ...
BootCount(ok) ==
  /\ boot.pc = "count"
  /\ boot' = IF ~ok THEN [boot EXCEPT !.pc = "done", !.failedAt = "count"]
             ELSE [boot EXCEPT !.wardCount = Cardinality(wards),
                               !.pc = IF Cardinality(wards) = 0 THEN "insert" ELSE "find"]
  /\ BootFrame
  /\ UNCHANGED <<wards, nextWardId, users>>

\* await Ward.insertMany(defaultWards): the documents are written in order up
\* to the first one the store rejects. k is the number the store accepts
\* before it fails (SeedWardCount when it does not fail); a document whose
\* wardNumber is taken is rejected by the unique index.
BootInsert(pops, k) ==
  /\ boot.pc = "insert"
  /\ LET docs == [i \in 1..SeedWardCount |-> SeedWard(i, nextWardId + i - 1, pops[i])]
         clash == {i \in 1..SeedWardCount : DuplicateKey(wards, docs[i])}
         n == IF \E i \in clash : i <= k
              THEN (CHOOSE i \in clash : \A j \in clash : i <= j) - 1
              ELSE k
     IN  /\ wards' = wards \cup {docs[i] : i \in 1..n}
         /\ boot' = IF n = SeedWardCount THEN [boot EXCEPT !.pc = "find"]
                    ELSE [boot EXCEPT !.pc = "done", !.failedAt = "insert"]
  /\ nextWardId' = nextWardId + SeedWardCount
  /\ BootFrame
  /\ UNCHANGED users

\* const adminExists = await User.findOne({ role: 'admin' })
BootFindAdmin(ok) ==
  /\ boot.pc = "find"
  /\ boot' = IF ~ok THEN [boot EXCEPT !.pc = "done", !.failedAt = "find"]
             ELSE [boot EXCEPT !.adminExists = (Admins # {}),
                               !.pc = IF Admins # {} THEN "done" ELSE "save"]
  /\ BootFrame
  /\ UNCHANGED <<wards, nextWardId, users>>

\* await adminUser.save()
BootSaveAdmin(ok) ==
  /\ boot.pc = "save"
  /\ IF ok THEN /\ users' = users \cup {[AdminUser EXCEPT !.id = FreshUserId]}
                /\ boot' = [boot EXCEPT !.pc = "done"]
     ELSE /\ boot' = [boot EXCEPT !.pc = "done", !.failedAt = "save"]
          /\ UNCHANGED users
  /\ BootFrame
  /\ UNCHANGED <<wards, nextWardId>>

\* ------------------------------------------------------------ socket.io
\* io.on('connection')
Connect(s) ==
  /\ s \notin connected
  /\ connected' = connected \cup {s}
  /\ rooms' = [rooms EXCEPT ![s] = {}]
  /\ rejoined' = [rejoined EXCEPT ![s] = {}]
  /\ Quiet
  /\ UNCHANGED <<storeVars, now, reqs, wardVars>>

\* The resident whose client holds session s: the handlers never learn it,
\* the connection carries no identity.
SessionActor(s) == CHOOSE a \in Residents : a.wardNumber = ((s - 1) % MaxWard) + 1

\* socket.on('join-ward', wardNumber): socket.join(`ward-${wardNumber}`)
JoinWard(s, w) ==
  /\ s \in connected
  /\ rooms' = [rooms EXCEPT ![s] = @ \cup {w}]
  /\ rejoined' = [rejoined EXCEPT ![s] = IF w \in rooms[s] THEN @ \cup {w} ELSE @]
  /\ Quiet
  /\ UNCHANGED <<storeVars, now, reqs, connected, wardVars>>

\* An echo with socket.rooms in place of the room the payload names.
ClientStatusUpdateToOwnRooms(s, data) ==
  /\ s \in connected
  /\ lastEmit' = [event |-> data,
                  copies |-> [t \in Sessions |->
                     IF t \in connected /\ rooms[t] \cap rooms[s] # {} THEN 1 ELSE 0],
                  sender |-> s]
  /\ UNCHANGED <<storeVars, now, reqs, connected, rooms, rejoined, wardVars>>

\* socket.on('problem-status-update', data): echoed to the room data names.
\* sender is history: the socket the message came from.
ClientStatusUpdate(s, data) ==
  /\ s \in connected
  /\ lastEmit' = [Emit(data.wardNumber, data) EXCEPT !.sender = s]
  /\ UNCHANGED <<storeVars, now, reqs, connected, rooms, rejoined, wardVars>>

\* A disconnect that leaves the socket in its rooms.
DisconnectKeepsRooms(s) ==
  /\ s \in connected
  /\ connected' = connected \ {s}
  /\ UNCHANGED <<rooms, rejoined>>
  /\ Quiet
  /\ UNCHANGED <<storeVars, now, reqs, wardVars>>

\* The socket closes: socket.io removes it from every room it had joined.
Disconnect(s) ==
  /\ s \in connected
  /\ connected' = connected \ {s}
  /\ rooms' = [rooms EXCEPT ![s] = {}]
  /\ UNCHANGED rejoined
  /\ Quiet
  /\ UNCHANGED <<storeVars, now, reqs, wardVars>>

\* Payloads a client may send as problem-status-update.
ClientPayloads ==
  {[type |-> "problem-updated", id |-> i, title |-> TitleMin, status |-> "Closed",
    wardNumber |-> w, topic |-> w, origin |-> "client"]
     : i \in {1}, w \in Wards}

\* -------------------------------------------------------- specifications
\* Who sends what to POST /problems: every caller a valid body, whatever
\* wardNumber and reportedBy it carries, and one resident every invalid one.
PostInputs ==
  {<<a, b>> \in (Residents \cup {Anonymous}) \X PostBodies : PostErrors(b) = {}}
  \cup {<<a, b>> \in Residents \X PostBodies : a.wardNumber = 1}

\* Who sends what to PUT /problems/:id/status: the administrator every body,
\* everyone else a resolution and the update that carries notes and assignee.
PutInputs ==
  ({AdminUser} \X PutBodies)
  \cup {<<a, b>> \in (Actors \ {AdminUser}) \X PutBodies :
          b.status = "Resolved" \/ b.assignedTo # NoUser}

\* The mutating requests, one request at a time.
Next ==
  \/ \E i \in PostInputs : PostStart("r1", i[1], i[2])
  \/ \E ok \in BOOLEAN : PostSave("r1", ok)
  \/ \E p \in BOOLEAN, e \in BOOLEAN : PostEmit("r1", p, e)
  \/ \E i \in PutInputs, pid \in ProblemIds : PutStart("r1", i[1], pid, i[2])
  \/ \E ok \in BOOLEAN : PutFind("r1", ok)
  \/ \E ok \in BOOLEAN : PutSave1("r1", ok)
  \/ \E ok \in BOOLEAN : PutSave2("r1", ok)
  \/ \E p \in BOOLEAN, e \in BOOLEAN : PutEmit("r1", p, e)

Spec == Init /\ [][Next]_vars

\* The reads, every actor and query, over the stores that reports and
\* resolutions build.
NextRead ==
  \/ \E a \in SignedIn : PostStart("r1", a, ValidPost)
  \/ \E ok \in BOOLEAN : PostSave("r1", ok)
  \/ \E p \in BOOLEAN, e \in BOOLEAN : PostEmit("r1", p, e)
  \/ \E pid \in ProblemIds : PutStart("r1", AdminUser, pid, ResolveBody)
  \/ \E ok \in BOOLEAN : PutFind("r1", ok)
  \/ \E ok \in BOOLEAN : PutSave1("r1", ok)
  \/ \E p \in BOOLEAN, e \in BOOLEAN : PutEmit("r1", p, e)
  \/ \E a \in Actors, qry \in ListQueries : ListStart("r1", a, qry)
  \/ \E ok \in BOOLEAN, o \in SortedOrders(Matching(reqs["r1"].filter)) : ListFind("r1", ok, o)
  \/ \E ok \in BOOLEAN : ListCount("r1", ok)
  \/ \E a \in Actors, pid \in ProblemIds : GetStart("r1", a, pid)
  \/ \E ok \in BOOLEAN : GetFind("r1", ok)
  \/ \E a \in Actors, w \in WardParams, qry \in WardQueries : WardListStart("r1", a, w, qry)

SpecRead == Init /\ [][NextRead]_vars

\* The notification bus: sockets joining and leaving rooms while reports and
\* updates publish. A join-ward for a room the socket is already in changes
\* no room and is left to SpecDeliver.
NextBus ==
  \/ \E s \in Sessions : Connect(s)
  \/ \E s \in Sessions, w \in Wards : w \notin rooms[s] /\ JoinWard(s, w)
  \/ \E s \in Sessions : Disconnect(s)
  \/ \E a \in Residents : PostStart("r1", a, ValidPost)
  \/ \E ok \in BOOLEAN : PostSave("r1", ok)
  \/ \E p \in BOOLEAN, e \in BOOLEAN : PostEmit("r1", p, e)
  \/ \E pid \in ProblemIds : PutStart("r1", AdminUser, pid, ConfirmBody)
  \/ \E ok \in BOOLEAN : PutFind("r1", ok)
  \/ \E ok \in BOOLEAN : PutSave1("r1", ok)
  \/ \E p \in BOOLEAN, e \in BOOLEAN : PutEmit("r1", p, e)

SpecBus == Init /\ [][NextBus]_vars

\* Clients join rooms and send problem-status-update, which the server echoes
\* to the room the payload names, next to a resident's report.
NextEcho ==
  \/ \E a \in Residents : a.wardNumber = 1 /\ PostStart("r1", a, ValidPost)
  \/ \E ok \in BOOLEAN : PostSave("r1", ok)
  \/ \E p \in BOOLEAN, e \in BOOLEAN : PostEmit("r1", p, e)
  \/ \E s \in Sessions : Connect(s)
  \/ \E s \in Sessions, w \in Wards : w \notin rooms[s] /\ JoinWard(s, w)
  \/ \E s \in Sessions, d \in ClientPayloads : ClientStatusUpdate(s, d)
  \/ \E s \in Sessions : Disconnect(s)

SpecEcho == Init /\ [][NextEcho]_vars

\* Status updates over time: the clock advances between an administrator's
\* updates of a reported problem.
NextClock ==
  \/ Tick
  \/ \E a \in Residents : PostStart("r1", a, ValidPost)
  \/ \E ok \in BOOLEAN : PostSave("r1", ok)
  \/ \E p \in BOOLEAN, e \in BOOLEAN : PostEmit("r1", p, e)
  \/ \E pid \in ProblemIds, s \in Statuses :
       PutStart("r1", AdminUser, pid, [NoBody EXCEPT !.status = s])
  \/ \E ok \in BOOLEAN : PutFind("r1", ok)
  \/ \E ok \in BOOLEAN : PutSave1("r1", ok)
  \/ \E p \in BOOLEAN, e \in BOOLEAN : PutEmit("r1", p, e)

SpecClock == Init /\ [][NextClock]_vars

\* Two requests in flight: a report and an administrator's updates of the same
\* problems interleave at every await. The store answers every call but the
\* first write of an update, which may fail.
RaceBodies ==
  {[NoBody EXCEPT !.status = "Resolved"],
   [NoBody EXCEPT !.status = "Open"],
   [NoBody EXCEPT !.status = "In Progress", !.adminNotes = 3, !.assignedTo = AdminId]}

NextRace ==
  \/ \E r \in Reqs, a \in Residents : a.wardNumber = 1 /\ PostStart(r, a, ValidPost)
  \/ \E r \in Reqs : PostSave(r, TRUE)
  \/ \E r \in Reqs : PostEmit(r, TRUE, TRUE)
  \/ \E r \in Reqs, pid \in ProblemIds, b \in RaceBodies : PutStart(r, AdminUser, pid, b)
  \/ \E r \in Reqs : PutFind(r, TRUE)
  \/ \E r \in Reqs, ok \in BOOLEAN : PutSave1(r, ok)
  \/ \E r \in Reqs : PutSave2(r, TRUE)
  \/ \E r \in Reqs : PutEmit(r, TRUE, TRUE)

SpecRace == Init /\ [][NextRace]_vars

\* The ward routes, one request at a time: the administrator sends every
\* body, the other callers a valid one.
WardPostInputs ==
  {<<AdminUser, b>> : b \in WardPostBodies}
  \cup {<<a, [NoWardBody EXCEPT !.wardNumber = 1, !.name = WardNameMin]>> :
          a \in Actors \ {AdminUser}}

WardPutInputs ==
  {<<AdminUser, b>> : b \in WardPutBodies}
  \cup {<<a, [NoWardBody EXCEPT !.isActive = "false"]>> : a \in Actors \ {AdminUser}}

NextWard ==
  \/ \E i \in WardPostInputs : WardPostStart("r1", i[1], i[2])
  \/ \E ok \in BOOLEAN : WardPostFind("r1", ok)
  \/ \E ok \in BOOLEAN : WardPostSave("r1", ok)
  \/ \E i \in WardPutInputs, n \in WardParams : WardPutStart("r1", i[1], n, i[2])
  \/ \E ok \in BOOLEAN : WardPutUpdate("r1", ok)
  \/ \E a \in Actors : WardIndexStart("r1", a)
  \/ \E ok \in BOOLEAN, o \in SortedWardOrders(ListedWards) : WardIndexFind("r1", ok, o)
  \/ \E ok \in BOOLEAN : WardIndexCount("r1", ok)
  \/ \E a \in Actors, n \in WardParams : WardGetStart("r1", a, n)
  \/ \E ok \in BOOLEAN : WardGetFind("r1", ok)
  \/ \E ok \in BOOLEAN, o \in SortedOrders(Matching([NoFilter EXCEPT !.wardNumber = reqs["r1"].wardNumber])) :
       WardGetRecent("r1", ok, o)
  \/ \E ok \in BOOLEAN : WardGetStats("r1", ok)

SpecWard == Init /\ [][NextWard]_vars

\* Two administrator requests in flight on the Ward collection: creations and
\* updates interleave between the existence check and the write.
WardRaceBodies ==
  {[NoWardBody EXCEPT !.isActive = "false"]}
  \cup {[NoWardBody EXCEPT !.wardNumber = n] : n \in {1, MaxWard}}

NextWardRace ==
  \/ \E r \in Reqs, n \in {1, MaxWard} :
       WardPostStart(r, AdminUser, [NoWardBody EXCEPT !.wardNumber = n, !.name = WardNameMin])
  \/ \E r \in Reqs : WardPostFind(r, TRUE)
  \/ \E r \in Reqs : WardPostSave(r, TRUE)
  \/ \E r \in Reqs, n \in {1, MaxWard}, b \in WardRaceBodies :
       WardPutStart(r, AdminUser, <<DigitChar[n]>>, b)
  \/ \E r \in Reqs : WardPutUpdate(r, TRUE)

SpecWardRace == Init /\ [][NextWardRace]_vars

\* Reports and status updates with an assignment in one request slot, ward
\* creations, renumberings and soft deletes in the other, interleaved at every
\* await: the update's body also names another ward and another reporter.
KeepBody ==
  [NoBody EXCEPT !.status = "Resolved", !.assignedTo = AdminId,
                 !.wardNumber = MaxWard, !.reportedBy = AdminId]

NextKeep ==
  \/ \E a \in Residents : a.wardNumber = 1 /\ PostStart("r1", a, ValidPost)
  \/ PostSave("r1", TRUE)
  \/ PostEmit("r1", TRUE, TRUE)
  \/ \E pid \in ProblemIds, b \in {KeepBody, ConfirmBody} : PutStart("r1", AdminUser, pid, b)
  \/ PutFind("r1", TRUE)
  \/ \E ok \in BOOLEAN : PutSave1("r1", ok)
  \/ \E ok \in BOOLEAN : PutSave2("r1", ok)
  \/ PutEmit("r1", TRUE, TRUE)
  \/ WardPostStart("r2", AdminUser, [NoWardBody EXCEPT !.wardNumber = 1, !.name = WardNameMin])
  \/ WardPostFind("r2", TRUE)
  \/ WardPostSave("r2", TRUE)
  \/ \E b \in {[NoWardBody EXCEPT !.wardNumber = MaxWard],
                 [NoWardBody EXCEPT !.isActive = "false"]} :
       WardPutStart("r2", AdminUser, <<DigitChar[1]>>, b)
  \/ WardPutUpdate("r2", TRUE)

SpecKeep == Init /\ [][NextKeep]_vars

\* Two administrator updates of one problem in flight, each with a status
\* and an assignee of its own; the store answers every call.
AssignBodies ==
  {[NoBody EXCEPT !.status = "Resolved", !.adminNotes = 3, !.assignedTo = AdminId],
   [NoBody EXCEPT !.status = "In Progress", !.assignedTo = 1]}

NextAssign ==
  \/ \E r \in Reqs, a \in Residents : a.wardNumber = 1 /\ PostStart(r, a, ValidPost)
  \/ \E r \in Reqs : PostSave(r, TRUE)
  \/ \E r \in Reqs : PostEmit(r, TRUE, TRUE)
  \/ \E r \in Reqs, pid \in ProblemIds, b \in AssignBodies : PutStart(r, AdminUser, pid, b)
  \/ \E r \in Reqs : PutFind(r, TRUE)
  \/ \E r \in Reqs : PutSave1(r, TRUE)
  \/ \E r \in Reqs : PutSave2(r, TRUE)
  \/ \E r \in Reqs : PutEmit(r, TRUE, TRUE)

SpecAssign == Init /\ [][NextAssign]_vars

\* The bootstrap, run and run again, on an empty store, on one that holds a
\* ward, and with or without users and an administrator.
InitBoot ==
  /\ problems = [i \in ProblemIds |-> NoDoc]
  /\ nextId = 1
  /\ now = 1
  /\ reqs = [r \in Reqs |-> IdleReq]
  /\ connected = {}
  /\ rooms = [s \in Sessions |-> {}]
  /\ lastEmit = NoEmit
  /\ rejoined = [s \in Sessions |-> {}]
  /\ \/ wards = {} /\ nextWardId = 1
     \/ wards = {SeedWard(3, 1, 0)} /\ nextWardId = 2
  /\ users \in {{}, Residents, {AdminUser}, Residents \cup {AdminUser}}
  /\ boot = BootOff

NextBoot ==
  \/ BootStart
  \/ \E ok \in BOOLEAN : BootCount(ok)
  \/ \E pops \in SeedPopulations, k \in 0..SeedWardCount :
       BootInsert(pops, k)
  \/ \E ok \in BOOLEAN : BootFindAdmin(ok)
  \/ \E ok \in BOOLEAN : BootSaveAdmin(ok)

SpecBoot == InitBoot /\ [][NextBoot]_vars

\* Pagination: both listing routes read a store that holds 0..MaxList
\* problems, all of ward 1 but at most one, created at distinct times or all
\* at once, with every page up to MaxPage and every page size up to MaxLimit,
\* given or left out.
SeededProblem(i, w, t) ==
  [NoDoc EXCEPT !.id = i, !.title = TitleMin, !.category = "Other",
                !.priority = "Medium", !.status = "Open", !.reportedBy = w,
                !.wardNumber = w, !.createdAt = t]

PageStores ==
  {[i \in 1..MaxList |->
      IF i > n THEN NoDoc
      ELSE SeededProblem(i, IF i = other THEN MaxWard ELSE 1, IF atOnce THEN 1 ELSE i)]
     : n \in 0..MaxList, other \in 0..MaxList, atOnce \in BOOLEAN}

PageQueries ==
  {[NoQuery EXCEPT !.page = p, !.limit = l] :
     p \in {Absent} \cup (1..MaxPage), l \in {Absent} \cup (1..MaxLimit)}

InitPage ==
  /\ problems \in PageStores
  /\ nextId = MaxList + 1
  /\ now = MaxList
  /\ reqs = [r \in Reqs |-> IdleReq]
  /\ connected = {}
  /\ rooms = [s \in Sessions |-> {}]
  /\ lastEmit = NoEmit
  /\ rejoined = [s \in Sessions |-> {}]
  /\ wards = {}
  /\ nextWardId = 1
  /\ users = Residents \cup {AdminUser}
  /\ boot = BootOff

NextPage ==
  \/ \E a \in {AdminUser}, qry \in PageQueries : ListStart("r1", a, qry)
  \/ \E a \in Residents, qry \in PageQueries : a.wardNumber = 1 /\ ListStart("r1", a, qry)
  \/ \E qry \in PageQueries : WardListStart("r1", AdminUser, <<"1">>, qry)
  \/ \E ok \in BOOLEAN, o \in SortedOrders(Matching(reqs["r1"].filter)) : ListFind("r1", ok, o)
  \/ \E ok \in BOOLEAN : ListCount("r1", ok)

SpecPage == InitPage /\ [][NextPage]_vars

\* Delivery: sockets connect, join rooms (also rooms they are already in) and
\* disconnect while a resident's report and the administrator's update of it
\* are published; the store answers every call. Every event is of ward 1: the
\* sockets join its room and the room of one other ward.
NextDeliver ==
  \/ \E s \in Sessions : Connect(s)
  \/ \E s \in Sessions, w \in {1, MaxWard} : JoinWard(s, w)
  \/ \E s \in Sessions : Disconnect(s)
  \/ \E a \in Residents : a.wardNumber = 1 /\ PostStart("r1", a, ValidPost)
  \/ PostSave("r1", TRUE)
  \/ PostEmit("r1", TRUE, TRUE)
  \/ \E pid \in ProblemIds : PutStart("r1", AdminUser, pid, ConfirmBody)
  \/ PutFind("r1", TRUE)
  \/ PutSave1("r1", TRUE)
  \/ PutEmit("r1", TRUE, TRUE)

SpecDeliver == Init /\ [][NextDeliver]_vars

\* ------------------------------------------------------------------ claims
Done(r) == reqs[r].pc = "done"

Stored == {problems[i] : i \in DOMAIN problems} \ {NoDoc}

\* C1: a new-problem or problem-updated event published by a handler for a
\* problem of ward n reaches every socket that is in room ward-n when it is
\* published, and no socket that is not, in particular none that has joined
\* only other wards' rooms.
C1_FanOutToWardRoom ==
  lastEmit.event.origin = "handler" =>
    LET n == problems[lastEmit.event.id].wardNumber IN
      \A s \in Sessions :
        /\ (s \in connected /\ n \in rooms[s]) => lastEmit.copies[s] >= 1
        /\ n \notin rooms[s] => lastEmit.copies[s] = 0

C1_Witness ==
  /\ lastEmit.event.origin = "handler"
  /\ lastEmit.event.type = "problem-updated"
  /\ \E s, t \in Sessions :
       /\ lastEmit.event.wardNumber \in rooms[s] /\ lastEmit.copies[s] = 1
       /\ rooms[t] # {} /\ lastEmit.event.wardNumber \notin rooms[t]
       /\ lastEmit.copies[t] = 0

\* C2: when a handler publishes new-problem or problem-updated, the problem it
\* names is in the store with the title and ward of the payload, and the status
\* of the payload is one the invocation has read from or written to the store:
\* the writes come before the publish.
C2_CommittedBeforePublished ==
  /\ \A r \in Reqs : \A k \in DOMAIN reqs[r].emitted :
       LET e == reqs[r].emitted[k] IN
         /\ problems[e.id] # NoDoc
         /\ problems[e.id].title = e.title
         /\ problems[e.id].wardNumber = e.wardNumber
         /\ e.type = "problem-updated" => e.status \in reqs[r].seen
         /\ e.type = "new-problem" => reqs[r].seen # {}
  /\ lastEmit.event.origin = "handler" =>
       \E r \in Reqs : Done(r) /\ reqs[r].emitted = <<lastEmit.event>>

\* A published update whose status a concurrent update has already replaced.
C2_Witness ==
  /\ lastEmit.event.origin = "handler"
  /\ lastEmit.event.type = "problem-updated"
  /\ problems[lastEmit.event.id].status # lastEmit.event.status

\* C3: in the step in which a mutating request fails at validation (400), at
\* lookup (404) or at a store write (500), the store is left as it is and
\* nothing is emitted, the request has published no event, and it is over.
C3_FailureShortCircuits ==
  [][\A r \in Reqs :
       (/\ ~Done(r) /\ reqs'[r].pc = "done"
        /\ reqs'[r].kind \in {"post", "put"}
        /\ reqs'[r].failedAt \in {"validation", "lookup", "save", "save2"})
       => /\ reqs'[r].res.code \in {400, 404, 500}
          /\ problems' = problems
          /\ lastEmit' = NoEmit
          /\ reqs'[r].emitted = <<>>]_vars

C3_Witness ==
  \E r \in Reqs :
    /\ Done(r) /\ reqs[r].kind = "put" /\ reqs[r].failedAt = "save2"
    /\ reqs[r].res.code = 500 /\ reqs[r].emitted = <<>>
    /\ problems[reqs[r].pid].status = "In Progress"

\* C4: a request whose publish failed after its store writes succeeded still
\* answers 201 / 200 with the record.
C4_PublishFailureTolerated ==
  \A r \in Reqs :
    (Done(r) /\ reqs[r].failedAt = "emit") =>
      /\ reqs[r].res.code \in {200, 201}
      /\ reqs[r].res.problem # NoDoc

\* C5: GET /problems by a non-admin answers only problems of the actor's ward,
\* its total counts exactly the actor's-ward problems that pass the status and
\* category filters, and it is never refused (400, 403, 404), whatever ward
\* filter the query carries.
C5_ListNarrowedToOwnWard ==
  \A r \in Reqs :
    (Done(r) /\ reqs[r].kind = "list" /\ reqs[r].actor.role = "resident") =>
      LET q == reqs[r] IN
        /\ q.res.code \in {200, 500}
        /\ \A k \in DOMAIN q.res.problems :
             q.res.problems[k].wardNumber = q.actor.wardNumber
        /\ q.res.code = 200 =>
             q.res.total = Cardinality(
               {d \in Stored : /\ d.wardNumber = q.actor.wardNumber
                               /\ q.query.status \in {"", d.status}
                               /\ q.query.category \in {"", d.category}})

C5_Witness ==
  \E r \in Reqs :
    /\ Done(r) /\ reqs[r].kind = "list" /\ reqs[r].actor.role = "resident"
    /\ reqs[r].res.code = 200
    /\ reqs[r].query.wardNumber # <<>>
    /\ parseInt(reqs[r].query.wardNumber) # reqs[r].actor.wardNumber
    /\ \E d \in Stored : d.wardNumber = parseInt(reqs[r].query.wardNumber)
    /\ reqs[r].res.problems = <<>> /\ reqs[r].res.total = 0

\* C6: GET /wards/:n/problems by a non-admin whose ward is not n answers 403
\* and no problem data; an admin, and a non-admin of ward n, is never
\* answered 403.
C6_WardListingFailsClosed ==
  \A r \in Reqs :
    (Done(r) /\ reqs[r].kind = "wardlist" /\ Authenticated(reqs[r].actor)) =>
      LET q == reqs[r]
          other == q.actor.role # "admin" /\ q.filter.wardNumber # q.actor.wardNumber
      IN  /\ other => /\ q.res.code = 403
                      /\ q.res.problems = <<>> /\ q.res.total = Absent
          /\ ~other => q.res.code # 403

C6_Witness ==
  \E r \in Reqs :
    /\ Done(r) /\ reqs[r].kind = "wardlist" /\ reqs[r].actor.role = "resident"
    /\ reqs[r].res.code = 403
    /\ \E d \in Stored : d.wardNumber = reqs[r].filter.wardNumber

\* C7: GET /problems/:id answers the problem only if it exists and the actor
\* is an admin or of the problem's ward; when the lookup itself succeeds it
\* answers the problem in exactly that case, 403 when the problem exists and
\* the actor may not view it, and 404 when no problem has the id.
C7_SingleFetchFailsClosed ==
  \A r \in Reqs :
    (Done(r) /\ reqs[r].kind = "get" /\ Authenticated(reqs[r].actor)) =>
      LET q == reqs[r]
          d == problems[q.pid]
          may == q.actor.role = "admin" \/ d.wardNumber = q.actor.wardNumber
      IN  /\ q.res.code = 200 => (d # NoDoc /\ may /\ q.res.problem = d)
          /\ q.res.code # 200 => q.res.problem = NoDoc
          /\ q.failedAt # "find" =>
               /\ (d # NoDoc /\ may) => q.res.code = 200
               /\ (d # NoDoc /\ ~may) => q.res.code = 403
               /\ d = NoDoc => q.res.code = 404

C7_Witness ==
  \E r \in Reqs :
    /\ Done(r) /\ reqs[r].kind = "get" /\ reqs[r].actor.role = "resident"
    /\ reqs[r].res.code = 403
    /\ problems[reqs[r].pid] # NoDoc

\* C8: a step changes the status, adminNotes, assignedTo or resolvedAt of an
\* existing problem only if it is a step of a status update made by an admin.
C8_OnlyAdminChangesProblem ==
  [][\A i \in ProblemIds :
       (/\ problems[i] # NoDoc
        /\ \E f \in {"status", "adminNotes", "assignedTo", "resolvedAt"} :
             problems'[i][f] # problems[i][f])
       => \E r \in Reqs : /\ reqs'[r] # reqs[r]
                          /\ reqs[r].kind = "put"
                          /\ reqs[r].actor.role = "admin"]_vars

C8_Witness ==
  \E r \in Reqs :
    /\ Done(r) /\ reqs[r].kind = "put" /\ reqs[r].actor.role = "resident"
    /\ reqs[r].res.code = 403
    /\ problems[reqs[r].pid] # NoDoc
    /\ problems[reqs[r].pid].status = "In Progress"
    /\ problems[reqs[r].pid].assignedTo = AdminId

\* C9: a problem created by POST /problems has the creating actor's wardNumber
\* and the creating actor as reportedBy, whatever the body carries, and its
\* new-problem event goes to the room of that actor's ward.
C9_WardAndReporterFromActor ==
  \A r \in Reqs :
    (reqs[r].kind = "post" /\ (reqs[r].pc = "post_emit" \/ reqs[r].res.code = 201)) =>
      LET q == reqs[r]
          d == problems[IF Done(r) THEN q.res.problem.id ELSE q.doc.id]
      IN  /\ d # NoDoc
          /\ d.wardNumber = q.actor.wardNumber
          /\ d.reportedBy = q.actor.id
          /\ Done(r) => /\ Len(q.emitted) = 1
                        /\ q.emitted[1].type = "new-problem"
                        /\ q.emitted[1].topic = q.actor.wardNumber
                        /\ lastEmit.event = q.emitted[1]

C9_Witness ==
  \E r \in Reqs :
    /\ Done(r) /\ reqs[r].kind = "post" /\ reqs[r].res.code = 201
    /\ reqs[r].body.wardNumber \in Wards
    /\ reqs[r].body.wardNumber # reqs[r].actor.wardNumber
    /\ reqs[r].body.reportedBy # Absent
    /\ reqs[r].body.reportedBy # reqs[r].actor.id

\* C10: a stored problem that is Resolved or Closed has a resolvedAt that is
\* set and not earlier than its createdAt; a status update to Resolved or
\* Closed writes the time at which it ran, an update to Open or In Progress
\* leaves resolvedAt as it is, and no step clears a resolvedAt that is set.
C10_ResolvedAtSetAndKept ==
  /\ [](\A d \in Stored :
          /\ d.status \in {"Resolved", "Closed"} => d.resolvedAt # NoDate
          /\ d.resolvedAt # NoDate => d.resolvedAt >= d.createdAt)
  /\ [][\A i \in ProblemIds : problems[i] # NoDoc =>
          /\ problems[i].resolvedAt # NoDate => problems'[i].resolvedAt # NoDate
          /\ \A r \in Reqs :
               (reqs[r].pc = "put_save1" /\ reqs[r].pid = i /\ problems'[i] # problems[i]) =>
                 IF reqs[r].body.status \in {"Resolved", "Closed"}
                 THEN /\ problems'[i].resolvedAt = reqs[r].doc.resolvedAt
                      /\ problems'[i].resolvedAt >= problems[i].createdAt
                 ELSE problems'[i].resolvedAt = problems[i].resolvedAt]_vars

C10_Witness ==
  \E d \in Stored :
    /\ d.status = "Open"
    /\ d.resolvedAt # NoDate
    /\ d.resolvedAt > d.createdAt

\* C11: when POST /wards looks up a wardNumber that a ward document, active or
\* not, already has, the request ends in that step with 400 (conflict), or
\* with 500 when the lookup itself fails; no document is created and the Ward
\* collection is left as it is.
C11_ExistingWardIsConflict ==
  [][\A r \in Reqs :
       (/\ reqs[r].pc = "wpost_find" /\ reqs'[r] # reqs[r]
        /\ \E w \in wards : w.wardNumber = reqs[r].wardNumber)
       => /\ reqs'[r].pc = "done"
          /\ \/ reqs'[r].res.code = 400 /\ reqs'[r].failedAt = "conflict"
             \/ reqs'[r].res.code = 500 /\ reqs'[r].failedAt = "find"
          /\ reqs'[r].res.ward = NoWard
          /\ wards' = wards /\ nextWardId' = nextWardId]_vars

C11_Witness ==
  \E r \in Reqs :
    /\ Done(r) /\ reqs[r].kind = "wardpost"
    /\ reqs[r].res.code = 400 /\ reqs[r].failedAt = "conflict"
    /\ \E w \in wards : w.wardNumber = reqs[r].wardNumber /\ ~w.isActive /\ w.name > WardNameMin

\* C12: a run of initializeDefaultData that completes on a store without wards
\* leaves exactly the ten wards numbered 1..10, and one that completes on a
\* store without an administrator leaves exactly one; a run on a store that
\* holds at least one ward and an administrator, the store a completed run
\* leaves included, creates no document in any step.
C12_BootstrapIdempotent ==
  /\ [](/\ (boot.pc = "done" /\ boot.failedAt = "" /\ ~boot.hadWards)
           => /\ Cardinality(wards) = SeedWardCount
              /\ {w.wardNumber : w \in wards} = 1..SeedWardCount
        /\ (boot.pc = "done" /\ boot.failedAt = "" /\ ~boot.hadAdmin)
           => Cardinality(Admins) = 1)
  /\ [][(boot.pc \notin {"off", "done"} /\ boot.hadWards /\ boot.hadAdmin)
          => wards' = wards /\ users' = users]_vars

\* A second run has completed on the store the first run seeded from nothing.
C12_Witness ==
  /\ boot.pc = "done" /\ boot.failedAt = ""
  /\ boot.hadWards /\ boot.hadAdmin /\ boot.wardCount = SeedWardCount
  /\ Cardinality(wards) = SeedWardCount /\ Cardinality(users) = 1
  /\ {w.id : w \in wards} = 1..SeedWardCount

\* C13: a listing answered 200 for page p and page size s, each the default 1
\* and 10 when the query leaves it out, holds the records at positions
\* (p-1)*s+1 .. min(p*s, N) of an order of the N matching problems by creation
\* time, newest first (none when (p-1)*s >= N); total is N and totalPages is
\* the least k with k*s >= N.
C13_PageIsSliceOfOrder ==
  \A r \in Reqs :
    (Done(r) /\ reqs[r].kind \in {"list", "wardlist"} /\ reqs[r].res.code = 200) =>
      LET q == reqs[r]
          p == IF q.query.page = Absent THEN 1 ELSE q.query.page
          s == IF q.query.limit = Absent THEN 10 ELSE q.query.limit
          M == {d \in Stored : /\ q.filter.wardNumber \in {Absent, d.wardNumber}
                               /\ q.filter.status \in {"", d.status}
                               /\ q.filter.category \in {"", d.category}}
          N == Cardinality(M)
          last == IF p * s < N THEN p * s ELSE N
      IN  /\ \E o \in [1..N -> M] :
               /\ \A i, j \in 1..N : i < j => o[i] # o[j] /\ o[i].createdAt >= o[j].createdAt
               /\ q.res.problems = SubSeq(o, (p - 1) * s + 1, last)
          /\ ((p - 1) * s >= N) => q.res.problems = <<>>
          /\ q.res.total = N
          /\ q.res.totalPages * s >= N /\ (q.res.totalPages - 1) * s < N
          /\ q.res.currentPage = p

\* The second page of size two of three matching problems: the third record.
C13_Witness ==
  \E r \in Reqs :
    /\ Done(r) /\ reqs[r].kind = "list" /\ reqs[r].res.code = 200
    /\ reqs[r].query.page = 2 /\ reqs[r].query.limit = 2
    /\ reqs[r].res.total = 3 /\ reqs[r].res.totalPages = 2
    /\ Len(reqs[r].res.problems) = 1
    /\ reqs[r].res.problems[1].createdAt = 1 /\ reqs[r].res.problems[1].id = 1

\* C14: no socket ever gets more than one copy of a published event, also
\* when it sent join-ward for the room more than once; and a socket gets a
\* copy only in the step in which a handler publishes the event, and only if
\* it was in the room before that step: a later join-ward brings no copy of an
\* earlier event.
C14_AtMostOnceNoReplay ==
  /\ [](\A s \in Sessions : lastEmit.copies[s] <= 1)
  /\ [][\A s \in Sessions :
          lastEmit'.copies[s] >= 1 =>
            /\ \E r \in Reqs : reqs'[r].emitted = Append(reqs[r].emitted, lastEmit'.event)
            /\ s \in connected /\ lastEmit'.event.wardNumber \in rooms[s]
            /\ rooms' = rooms /\ connected' = connected]_vars

\* An update is published to a room one socket has joined twice, and has
\* received once, while another socket has not joined it yet.
C14_Witness ==
  /\ lastEmit.event.type = "problem-updated"
  /\ \E s, t \in Sessions :
       /\ s \in connected /\ lastEmit.event.wardNumber \in rejoined[s]
       /\ lastEmit.copies[s] = 1
       /\ t \in connected /\ lastEmit.event.wardNumber \notin rooms[t]
       /\ lastEmit.copies[t] = 0

\* C15: a socket that is not connected is in no room and gets no copy of any
\* event; the step in which a socket disconnects empties its rooms and leaves
\* the rooms and the connection of every other socket as they were.
C15_DisconnectLeavesAllRooms ==
  /\ [](\A s \in Sessions :
          s \notin connected => rooms[s] = {} /\ lastEmit.copies[s] = 0)
  /\ [][\A s \in Sessions :
          (s \in connected /\ s \notin connected') =>
            /\ rooms'[s] = {}
            /\ \A t \in Sessions \ {s} :
                 rooms'[t] = rooms[t] /\ (t \in connected' <=> t \in connected)]_vars

\* An event is published to a room that a socket had joined, twice, before it
\* disconnected: the socket gets nothing, a socket still in the room one copy.
C15_Witness ==
  /\ lastEmit.event.origin = "handler"
  /\ \E s, t \in Sessions :
       /\ s \notin connected /\ lastEmit.event.wardNumber \in rejoined[s]
       /\ lastEmit.copies[s] = 0
       /\ t \in connected /\ lastEmit.event.wardNumber \in rooms[t]
       /\ lastEmit.copies[t] = 1

\* C16: an inactive ward is absent for every ward operation: a listing answered
\* 200 holds no inactive ward, the details answered 200 are those of an active
\* ward, and a PUT /wards/:n that reaches the store when no active ward has
\* number n is answered 404 and leaves the collection as it is.
C16_InactiveWardIsAbsent ==
  /\ [](\A r \in Reqs :
          (Done(r) /\ reqs[r].res.code = 200) =>
            /\ reqs[r].kind = "wardindex" =>
                 \A i \in DOMAIN reqs[r].res.wards : reqs[r].res.wards[i].ward.isActive
            /\ reqs[r].kind = "wardget" => reqs[r].res.ward.isActive)
  /\ [][\A r \in Reqs :
          (/\ reqs[r].pc = "wput_update" /\ reqs'[r] # reqs[r]
           /\ reqs[r].wardNumber # NaN /\ reqs'[r].failedAt # "find"
           /\ ~\E w \in wards : w.wardNumber = reqs[r].wardNumber /\ w.isActive)
          => reqs'[r].res.code = 404 /\ wards' = wards]_vars

\* C17: the step that handles a client's problem-status-update emits the
\* payload as it came, one copy to each connected socket that is in the room
\* of the ward the payload names and none to any other, the sender treated as
\* every other socket, and changes no problem, ward or user and no room.
C17_ClientEchoToNamedWard ==
  [][lastEmit'.event.origin = "client" =>
       /\ lastEmit'.event \in ClientPayloads
       /\ lastEmit'.sender \in connected
       /\ \A t \in Sessions :
            lastEmit'.copies[t] =
              IF t \in connected /\ lastEmit'.event.wardNumber \in rooms[t] THEN 1 ELSE 0
       /\ problems' = problems /\ nextId' = nextId
       /\ wards' = wards /\ users' = users
       /\ rooms' = rooms /\ connected' = connected]_vars

\* A socket that is in another ward's room sends an update, "Closed", for the
\* open problem of ward 1: the socket in ward 1's room gets it, the sender does
\* not, and the stored problem is still open.
C17_Witness ==
  /\ lastEmit.event.origin = "client" /\ lastEmit.event.wardNumber = 1
  /\ lastEmit.event.status = "Closed"
  /\ problems[lastEmit.event.id].status = "Open"
  /\ rooms[lastEmit.sender] = {MaxWard}
  /\ lastEmit.copies[lastEmit.sender] = 0
  /\ \E t \in Sessions : lastEmit.copies[t] = 1

\* C18: no step of a report, a status update, an assignment or a ward
\* operation removes a stored problem or changes its wardNumber or its
\* reportedBy: both stay what they were when the problem was created.
C18_WardAndReporterImmutable ==
  [][\A i \in DOMAIN problems :
       problems[i] # NoDoc =>
         /\ problems'[i] # NoDoc
         /\ problems'[i].id = problems[i].id
         /\ problems'[i].wardNumber = problems[i].wardNumber
         /\ problems'[i].reportedBy = problems[i].reportedBy]_vars

\* A resolved and assigned problem of ward 1, reported by ward 1's resident,
\* after an update whose body named another ward and another reporter, and
\* after ward 1's record was renumbered.
C18_Witness ==
  \E r \in Reqs, t \in Reqs :
    /\ reqs[r].kind = "put" /\ reqs[r].pc = "done" /\ reqs[r].res.code = 200
    /\ reqs[r].body = KeepBody
    /\ problems[reqs[r].pid].wardNumber = 1
    /\ problems[reqs[r].pid].reportedBy = 1
    /\ problems[reqs[r].pid].status = "Resolved"
    /\ problems[reqs[r].pid].assignedTo = AdminId
    /\ reqs[t].kind = "wardput" /\ reqs[t].pc = "done" /\ reqs[t].res.code = 200
    /\ reqs[t].wbody.wardNumber = MaxWard
    /\ \A w \in wards : w.wardNumber # 1

\* C19: no two active ward records share a wardNumber, also when two POST
\* /wards requests for one number interleave between the existence check and
\* the save, and when PUT /wards/:n applies a body with wardNumber or isActive.
C19_OneActiveWardPerNumber ==
  \A w1 \in wards, w2 \in wards :
    (w1.wardNumber = w2.wardNumber /\ w1.isActive /\ w2.isActive) => w1 = w2

\* Two creations of one ward number both passed the existence check: one is
\* stored and active, the other's save was rejected; and a renumbering onto
\* a number in use was rejected as well.
C19_Witness ==
  \E r \in Reqs, t \in Reqs :
    /\ r # t
    /\ reqs[r].kind = "wardpost" /\ reqs[r].pc = "done"
    /\ reqs[r].res.code = 500 /\ reqs[r].failedAt = "save"
    /\ \E w \in wards : w.wardNumber = reqs[r].wardNumber /\ w.isActive
    /\ reqs[t].kind = "wardput" /\ reqs[t].pc = "done"
    /\ reqs[t].res.code = 500 /\ reqs[t].failedAt = "save"
    /\ Cardinality(wards) = MaxWardDocs

\* C20: when two PUT /problems/:id/status requests on one problem have both
\* completed, the stored status, adminNotes and assignedTo are those of
\* running the two requests one after the other in one of the two orders.
\* Every update here sets a status and an assignee, so a serial outcome is
\* unchanged by running the two requests in that order once more.
C20_ConcurrentUpdatesSerializable ==
  \A r \in Reqs, t \in Reqs :
    ( /\ r # t
      /\ reqs[r].kind = "put" /\ reqs[r].pc = "done" /\ reqs[r].res.code = 200
      /\ reqs[t].kind = "put" /\ reqs[t].pc = "done" /\ reqs[t].res.code = 200
      /\ reqs[r].pid = reqs[t].pid )
    => \E first \in {r, t}, last \in {r, t} :
         /\ first # last
         /\ LET stored == problems[reqs[r].pid]
                serial == PutResult(PutResult(stored, reqs[first].body, now),
                                    reqs[last].body, now)
            IN  \A f \in {"status", "adminNotes", "assignedTo"} : stored[f] = serial[f]

\* C21: a PUT /problems/:id/status request that has written a changed status
\* to the store has, once it is over, published exactly one problem-updated
\* event, to the room of the problem's ward and with the status it wrote;
\* also when the request carries assignedTo and its second save fails. Stated
\* for requests whose populate and emit calls did not throw.
C21_NoSilentStatusChange ==
  \A r \in Reqs :
    ( /\ reqs[r].kind = "put" /\ reqs[r].pc = "done"
      /\ Cardinality(reqs[r].seen) > 1
      /\ reqs[r].failedAt \notin {"populate", "emit"} )
    => /\ Len(reqs[r].emitted) = 1
       /\ reqs[r].emitted[1].type = "problem-updated"
       /\ reqs[r].emitted[1].topic = problems[reqs[r].pid].wardNumber
       /\ reqs[r].emitted[1].status = problems[reqs[r].pid].status

\* C22: a session of a resident receives a new-problem or problem-updated
\* event only for a problem of a ward the resident may view, canView(actor,
\* wardNumber), that is of the resident's own ward, whatever join-ward
\* messages were sent.
C22_EventsOnlyForViewableWards ==
  \A s \in Sessions :
    ( /\ lastEmit.copies[s] > 0
      /\ lastEmit.event.type \in {"new-problem", "problem-updated"} )
    => /\ problems[lastEmit.event.id].wardNumber = lastEmit.event.wardNumber
       /\ canView(SessionActor(s), lastEmit.event.wardNumber)

====
